---- MODULE Spec2Model ----
(***************************************************************************)
(* Model of the voice-filtering capture controller of src/main.py: the     *)
(* global flag `running`, the status label, the foreground callbacks       *)
(* start_voice_filtering / stop_voice_filtering and the capture threads    *)
(* running capture_audio, one statement of capture_audio per step.         *)
(***************************************************************************)
EXTENDS Integers, Sequences, FiniteSets, TLC

\* Number of capture threads the foreground can launch in one run.
MaxThreads == 2
\* Number of distinct frame contents the input stream can deliver.
MaxFrameValue == 2

Threads == 1..MaxThreads
Frames == 1..MaxFrameValue
\* Python's None for a local that holds no frame.
NoData == 0

VARIABLES
    running,        \* main.py:24  the global flag
    status_label,   \* main.py:131 text of the status label: "Idle" / "Running"
    pc,             \* per thread: the line of capture_audio it executes next
    p,              \* per thread: PyAudio instance initialised and not terminated
    stream,         \* per thread: "none" / "open" / "stopped" / "closed"
    audio_data,     \* per thread: local audio_data of capture_audio
    filtered_audio, \* per thread: local filtered_audio of capture_audio
    played,         \* the buffer most recently handed to WaveObject.play
    lastCall,       \* history: the most recent foreground call
    lastEnd,        \* history: how the most recent capture thread ended, if
                    \* no Stop call came after it
    pending,        \* history, per thread: the frames stream.read returned
                    \* that play_audio has not been given yet, oldest first
    inOrder,        \* history, per thread: every buffer given to play_audio
                    \* so far was the oldest pending frame
    fn,             \* the function applied on its own, "none" in the controller
    arg,            \* its argument
    out,            \* its outcome: pending, a returned value or an exception
    reader,         \* roi_csv_reader: the rows the csv reader has not given yet
    batches         \* roi_csv_reader: the batches yielded so far

vars == <<running, status_label, pc, p, stream, audio_data, filtered_audio,
          played, lastCall, lastEnd, pending, inOrder,
          fn, arg, out, reader, batches>>

\* The variables of a function applied on its own.
callVars == <<fn, arg, out, reader, batches>>

\* The variables of the capture controller.
captureVars == <<running, status_label, pc, p, stream, audio_data,
                 filtered_audio, played, lastCall, lastEnd, pending, inOrder>>

\* ---------------------------------------------------------------- helpers

\* A thread object exists and its target has not returned or raised.
Alive(t) == pc[t] \notin {"unborn", "done", "raised71", "raised77", "raised79"}

Finished(t) == pc[t] \in {"done", "raised71", "raised77", "raised79"}

Raised(t) == pc[t] \in {"raised71", "raised77", "raised79"}

NoThreadAlive == \A t \in Threads : ~Alive(t)

\* Between p.open (line 71) and stream.close (line 82).
InSession(t) == stream[t] \in {"open", "stopped"}

Unborn == {t \in Threads : pc[t] = "unborn"}

\* The thread object threading.Thread(...) creates next.
NextThread == CHOOSE t \in Unborn : \A u \in Unborn : t <= u

\* A foreground call: which one, whether it created a thread, and whether no
\* capture thread was alive when it was made.
CallRecord(op, launched) ==
    [op |-> op, launched |-> launched, idleBefore |-> NoThreadAlive]

NoCall == [op |-> "none", launched |-> FALSE, idleBefore |-> TRUE]

\* ------------------------------------------------------------------- Init

CaptureInit ==
    /\ running = TRUE
    /\ status_label = "Idle"
    /\ pc = [t \in Threads |-> "unborn"]
    /\ p = [t \in Threads |-> FALSE]
    /\ stream = [t \in Threads |-> "none"]
    /\ audio_data = [t \in Threads |-> NoData]
    /\ filtered_audio = [t \in Threads |-> NoData]
    /\ played = NoData
    /\ lastCall = NoCall
    /\ lastEnd = "none"
    /\ pending = [t \in Threads |-> <<>>]
    /\ inOrder = [t \in Threads |-> TRUE]

\* The outcome of a call that has not finished.
Pending == [kind |-> "pending"]

Returned(v) == [kind |-> "return", value |-> v]

Raise(e) == [kind |-> "raise", value |-> e]

Init ==
    /\ CaptureInit
    /\ fn = "none"
    /\ arg = <<>>
    /\ out = Pending
    /\ reader = <<>>
    /\ batches = <<>>

\* ------------------------------------------------- foreground (GUI thread)
\* The Tk main loop runs one callback at a time. Each callback is one step:
\* creating the thread (line 99) touches no state a capture thread reads, and
\* the label write of line 105 commutes with every capture statement that can
\* run between lines 104 and 105, so the states at callback boundaries are the
\* same as with the callbacks' statements interleaved one by one.

\* main.py:95-99, the early return of line 98.
StartNoop ==
    /\ running
    /\ lastCall' = CallRecord("Start", FALSE)
    /\ UNCHANGED <<running, status_label, pc, p, stream, audio_data,
                   filtered_audio, played, lastEnd, pending, inOrder,
                   callVars>>

\* main.py:95-99, line 99: a new daemon thread with target capture_audio.
StartLaunch ==
    /\ ~running
    /\ Unborn # {}
    /\ pc' = [pc EXCEPT ![NextThread] = "l68"]
    /\ lastCall' = CallRecord("Start", TRUE)
    /\ UNCHANGED <<running, status_label, p, stream, audio_data,
                   filtered_audio, played, lastEnd, pending, inOrder,
                   callVars>>

start_voice_filtering == StartNoop \/ StartLaunch

\* main.py:101-105.
stop_voice_filtering ==
    /\ running' = FALSE
    /\ status_label' = "Idle"
    /\ lastCall' = CallRecord("Stop", FALSE)
    /\ lastEnd' = "none"
    /\ UNCHANGED <<pc, p, stream, audio_data, filtered_audio, played,
                   pending, inOrder, callVars>>

\* --------------------------------------------- capture thread, by statement

\* process_audio returning silence instead of the frame it was given.
process_audioMuted(data) == NoData

\* main.py:86-88.
process_audio(data) == data

\* main.py:67-68.
SetRunning(t) ==
    /\ pc[t] = "l68"
    /\ running' = TRUE
    /\ pc' = [pc EXCEPT ![t] = "l69"]
    /\ UNCHANGED <<status_label, p, stream, audio_data, filtered_audio,
                   played, lastCall, lastEnd, pending, inOrder, callVars>>

\* main.py:69.
NewPyAudio(t) ==
    /\ pc[t] = "l69"
    /\ p' = [p EXCEPT ![t] = TRUE]
    /\ pc' = [pc EXCEPT ![t] = "l71"]
    /\ UNCHANGED <<running, status_label, stream, audio_data, filtered_audio,
                   played, lastCall, lastEnd, pending, inOrder, callVars>>

\* main.py:71-72, an input device is available.
OpenOk(t) ==
    /\ pc[t] = "l71"
    /\ stream' = [stream EXCEPT ![t] = "open"]
    /\ pc' = [pc EXCEPT ![t] = "l74"]
    /\ UNCHANGED <<running, status_label, p, audio_data, filtered_audio,
                   played, lastCall, lastEnd, pending, inOrder, callVars>>

\* main.py:71-72, p.open raises: nothing in capture_audio catches it.
OpenRaises(t) ==
    /\ pc[t] = "l71"
    /\ pc' = [pc EXCEPT ![t] = "raised71"]
    /\ lastEnd' = "open_error"
    /\ UNCHANGED <<running, status_label, p, stream, audio_data,
                   filtered_audio, played, lastCall, pending, inOrder,
                   callVars>>

\* main.py:74.
LabelRunning(t) ==
    /\ pc[t] = "l74"
    /\ status_label' = "Running"
    /\ pc' = [pc EXCEPT ![t] = "l76"]
    /\ UNCHANGED <<running, p, stream, audio_data, filtered_audio, played,
                   lastCall, lastEnd, pending, inOrder, callVars>>

\* main.py:76, the loop test.
WhileRunning(t) ==
    /\ pc[t] = "l76"
    /\ pc' = [pc EXCEPT ![t] = IF running THEN "l77" ELSE "l81"]
    /\ UNCHANGED <<running, status_label, p, stream, audio_data,
                   filtered_audio, played, lastCall, lastEnd,
                   pending, inOrder, callVars>>

\* main.py:77, the stream delivers a frame.
ReadOk(t) ==
    /\ pc[t] = "l77"
    /\ \E f \in Frames :
        /\ audio_data' = [audio_data EXCEPT ![t] = f]
        /\ pending' = [pending EXCEPT ![t] = Append(@, f)]
    /\ pc' = [pc EXCEPT ![t] = "l78"]
    /\ UNCHANGED <<running, status_label, p, stream, filtered_audio, played,
                   lastCall, lastEnd, inOrder, callVars>>

\* The locals of a capture_audio frame that has raised are gone; the stream
\* and the PyAudio instance were never released.
Unwind(t, at, how) ==
    /\ pc' = [pc EXCEPT ![t] = at]
    /\ audio_data' = [audio_data EXCEPT ![t] = NoData]
    /\ filtered_audio' = [filtered_audio EXCEPT ![t] = NoData]
    /\ lastEnd' = how
    /\ pending' = [pending EXCEPT ![t] = <<>>]
    /\ UNCHANGED <<running, status_label, p, stream, played, lastCall,
                   inOrder, callVars>>

\* main.py:77, stream.read raises.
ReadRaises(t) ==
    /\ pc[t] = "l77"
    /\ Unwind(t, "raised77", "loop_error")

\* main.py:78.
Filter(t) ==
    /\ pc[t] = "l78"
    /\ filtered_audio' = [filtered_audio EXCEPT ![t] = process_audio(audio_data[t])]
    /\ pc' = [pc EXCEPT ![t] = "l79"]
    /\ UNCHANGED <<running, status_label, p, stream, audio_data, played,
                   lastCall, lastEnd, pending, inOrder, callVars>>

\* PlayOk with the call of line 79 left out: the loop goes on to the next
\* read and the frame is never played.
PlayOkSkipsFrame(t) ==
    /\ pc[t] = "l79"
    /\ pc' = [pc EXCEPT ![t] = "l76"]
    /\ UNCHANGED <<running, status_label, p, stream, audio_data,
                   filtered_audio, played, lastCall, lastEnd, pending,
                   inOrder, callVars>>

\* main.py:79 and 90-93, the frame is handed to playback.
PlayOk(t) ==
    /\ pc[t] = "l79"
    /\ played' = filtered_audio[t]
    /\ pending' = [pending EXCEPT ![t] = IF @ = <<>> THEN @ ELSE Tail(@)]
    /\ inOrder' = [inOrder EXCEPT ![t] =
                      @ /\ pending[t] # <<>>
                        /\ Head(pending[t]) = filtered_audio[t]]
    /\ pc' = [pc EXCEPT ![t] = "l76"]
    /\ UNCHANGED <<running, status_label, p, stream, audio_data,
                   filtered_audio, lastCall, lastEnd, callVars>>

\* main.py:79 and 90-93, play_audio raises.
PlayRaises(t) ==
    /\ pc[t] = "l79"
    /\ Unwind(t, "raised79", "loop_error")

\* main.py:81.
StopStream(t) ==
    /\ pc[t] = "l81"
    /\ stream' = [stream EXCEPT ![t] = "stopped"]
    /\ pc' = [pc EXCEPT ![t] = "l82"]
    /\ UNCHANGED <<running, status_label, p, audio_data, filtered_audio,
                   played, lastCall, lastEnd, pending, inOrder, callVars>>

\* main.py:82.
CloseStream(t) ==
    /\ pc[t] = "l82"
    /\ stream' = [stream EXCEPT ![t] = "closed"]
    /\ pc' = [pc EXCEPT ![t] = "l83"]
    /\ UNCHANGED <<running, status_label, p, audio_data, filtered_audio,
                   played, lastCall, lastEnd, pending, inOrder, callVars>>

\* main.py:83.
Terminate(t) ==
    /\ pc[t] = "l83"
    /\ p' = [p EXCEPT ![t] = FALSE]
    /\ pc' = [pc EXCEPT ![t] = "l84"]
    /\ UNCHANGED <<running, status_label, stream, audio_data, filtered_audio,
                   played, lastCall, lastEnd, pending, inOrder, callVars>>

\* main.py:84, then capture_audio returns.
LabelIdle(t) ==
    /\ pc[t] = "l84"
    /\ status_label' = "Idle"
    /\ pc' = [pc EXCEPT ![t] = "done"]
    /\ audio_data' = [audio_data EXCEPT ![t] = NoData]
    /\ filtered_audio' = [filtered_audio EXCEPT ![t] = NoData]
    /\ lastEnd' = "returned"
    /\ UNCHANGED <<running, p, stream, played, lastCall, pending, inOrder, callVars>>

\* main.py:65-84, one statement of one capture thread.
capture_audio(t) ==
    \/ SetRunning(t)
    \/ NewPyAudio(t)
    \/ OpenOk(t)
    \/ OpenRaises(t)
    \/ LabelRunning(t)
    \/ WhileRunning(t)
    \/ ReadOk(t)
    \/ ReadRaises(t)
    \/ Filter(t)
    \/ PlayOk(t)
    \/ PlayRaises(t)
    \/ StopStream(t)
    \/ CloseStream(t)
    \/ Terminate(t)
    \/ LabelIdle(t)

\* ------------------------------------------------------------ specification

Next ==
    \/ start_voice_filtering
    \/ stop_voice_filtering
    \/ \E t \in Threads : capture_audio(t)

Spec == Init /\ [][Next]_vars

\* A launched thread is scheduled: the interpreter switches threads, and a
\* blocking read or play returns or raises.
FairSpec == Spec /\ \A t \in Threads : WF_vars(capture_audio(t))

TypeOK ==
    /\ running \in BOOLEAN
    /\ status_label \in {"Idle", "Running"}
    /\ pc \in [Threads -> {"unborn", "l68", "l69", "l71", "l74", "l76", "l77",
                           "l78", "l79", "l81", "l82", "l83", "l84", "done",
                           "raised71", "raised77", "raised79"}]
    /\ p \in [Threads -> BOOLEAN]
    /\ stream \in [Threads -> {"none", "open", "stopped", "closed"}]
    /\ audio_data \in [Threads -> Frames \cup {NoData}]
    /\ filtered_audio \in [Threads -> Frames \cup {NoData}]
    /\ played \in Frames \cup {NoData}
    /\ lastCall \in [op : {"none", "Start", "Stop"}, launched : BOOLEAN,
                    idleBefore : BOOLEAN]
    /\ lastEnd \in {"none", "returned", "open_error", "loop_error"}

\* ------------------------------------------- functions applied on their own

\* main.py:17.
CHUNK == 1024
\* main.py:15.
CHANNELS == 2
\* main.py:14 and 92: paInt16, bytes_per_sample=2.
BytesPerSample == 2

\* The size in bytes of what stream.read(CHUNK) returns (main.py:71-77).
FrameBytes == CHUNK * CHANNELS * BytesPerSample

\* Byte buffers given to process_audio: a length and a content.
BufferLens == {0, FrameBytes - 1, FrameBytes, FrameBytes + 1, 2 * FrameBytes}

Buffers == [len : BufferLens, fill : Frames]

\* A process_audio that forces every buffer to the size of one frame.
ApplyProcessAudioResizes ==
    /\ fn = "process_audio"
    /\ out = Pending
    /\ out' = Returned([len |-> FrameBytes, fill |-> arg.fill])
    /\ UNCHANGED <<fn, arg, reader, batches>>
    /\ UNCHANGED captureVars

\* main.py:86-88 applied to a buffer.
ApplyProcessAudio ==
    /\ fn = "process_audio"
    /\ out = Pending
    /\ out' = Returned(process_audio(arg))
    /\ UNCHANGED <<fn, arg, reader, batches>>
    /\ UNCHANGED captureVars

\* ---- utils.py: check_streamable

\* utils.py:216, the number of bytes check_streamable reads.
HeaderLen == 40

Min(a, b) == IF a <= b THEN a ELSE b

\* Python's b[i:j] for 0 <= i <= j: it stops at the end of b.
Slice(b, i, j) == SubSeq(b, i + 1, Min(j, Len(b)))

\* int.from_bytes(b, byteorder="big") for four bytes.
FromBytesBig(b) == ((b[1] * 256 + b[2]) * 256 + b[3]) * 256 + b[4]

\* The atom types as bytes: b"ftyp", b"moov", b"mdat", b"free".
Ftyp == <<102, 116, 121, 112>>
Moov == <<109, 111, 111, 118>>
Mdat == <<109, 100, 97, 116>>
Free == <<102, 114, 101, 101>>

\* An MP4 file of `total` bytes: a first atom of type `first` and declared
\* size `size`, then an atom of type `second`, cut off at the end of the file.
Mp4File(first, size, second, total) ==
    [i \in 1..total |->
        IF i = 4 THEN size
        ELSE IF i \in 5..8 THEN first[i - 4]
        ELSE IF i = size + 4 THEN 8
        ELSE IF i \in (size + 5)..(size + 8) THEN second[i - size - 4]
        ELSE 0]

FtypSizes == {8, 16, 24, 32, 33, 36, 40, 48}
FileLens == {39, 40, 44, 64}

Mp4Files == {Mp4File(first, size, second, total) :
                first \in {Ftyp, Free}, size \in FtypSizes,
                second \in {Moov, Mdat}, total \in FileLens}

\* What check_streamable returns: a bool, or the tuple of line 225.
BoolResult(b) == [tag |-> "bool", b |-> b]
TupleResult(items) == [tag |-> "tuple", items |-> items]

\* utils.py:193-233, on the bytes of the file at file_path.
check_streamable(file) ==
    LET mp4_header_data == Slice(file, 0, HeaderLen) IN
    IF Len(mp4_header_data) < HeaderLen THEN Raise("RuntimeError")
    ELSE LET ftyp_size == FromBytesBig(Slice(mp4_header_data, 0, 4)) IN
         IF Slice(mp4_header_data, 4, 8) # Ftyp
         THEN Returned(TupleResult(<<FALSE, -1>>))
         ELSE LET next_atom_type ==
                      Slice(mp4_header_data, ftyp_size + 4, ftyp_size + 8) IN
              IF next_atom_type = Moov THEN Returned(BoolResult(TRUE))
              ELSE Returned(BoolResult(FALSE))

ApplyCheckStreamable ==
    /\ fn = "check_streamable"
    /\ out = Pending
    /\ out' = check_streamable(arg)
    /\ UNCHANGED <<fn, arg, reader, batches>>
    /\ UNCHANGED captureVars

\* ---- utils.py: roi_csv_reader

\* Longest csv file read, largest row_count asked for, number of distinct rows.
MaxRows == 3
MaxRowCount == 3
MaxRowValue == 2

RECURSIVE SeqsUpTo(_, _)
\* The sequences over S of length at most n.
SeqsUpTo(S, n) ==
    IF n = 0 THEN {<<>>}
    ELSE LET shorter == SeqsUpTo(S, n - 1) IN
         shorter \cup {Append(q, x) : q \in shorter, x \in S}

\* A call roi_csv_reader(reader, row_count) on a reader over the rows `rows`.
RoiCalls == [rows : SeqsUpTo(1..MaxRowValue, MaxRows), row_count : 0..MaxRowCount]

\* islice that leaves out the last of the rows it consumes.
isliceDropsLast(it, n) == SubSeq(it, 1, Min(n, Len(it)) - 1)

\* list(itertools.islice(it, n)), n >= 0: the next n items of it, or all that
\* are left.
islice(it, n) == SubSeq(it, 1, Min(n, Len(it)))

\* The iterator after islice(it, n) has consumed its items.
Consumed(it, n) == SubSeq(it, Min(n, Len(it)) + 1, Len(it))

\* utils.py:186-190, one turn of the loop that yields a batch.
RoiYield ==
    /\ fn = "roi_csv_reader"
    /\ out = Pending
    /\ LET rows == islice(reader, arg.row_count) IN
        /\ rows # <<>>
        /\ batches' = Append(batches, rows)
    /\ reader' = Consumed(reader, arg.row_count)
    /\ UNCHANGED <<fn, arg, out>>
    /\ UNCHANGED captureVars

\* utils.py:186-189, the turn of the loop that breaks: the generator ends.
RoiStop ==
    /\ fn = "roi_csv_reader"
    /\ out = Pending
    /\ islice(reader, arg.row_count) = <<>>
    /\ out' = Returned("StopIteration")
    /\ reader' = Consumed(reader, arg.row_count)
    /\ UNCHANGED <<fn, arg, batches>>
    /\ UNCHANGED captureVars

\* ---- utils.py: create_protobuf_any_value

\* A Python int as two limbs, hi * 65536 + lo with 0 <= lo < 65536, so that
\* values beyond 32 bits can be written.
IntOf(hi, lo) == [hi |-> hi, lo |-> lo]

IntGt(a, b) == a.hi > b.hi \/ (a.hi = b.hi /\ a.lo > b.lo)

IntLt(a, b) == IntGt(b, a)

\* utils.py:285: 2147483647 and -2147483648.
Int32Max == IntOf(32767, 65535)
Int32Min == IntOf(-32768, 0)

\* The ints tried: around zero, around both ends of the int32 range, and far
\* outside it.
PyInts ==
    {IntOf(0, 0), IntOf(0, 1), IntOf(-1, 65535),
     IntOf(32767, 65534), IntOf(32767, 65535), IntOf(32768, 0), IntOf(32768, 1),
     IntOf(-32768, 1), IntOf(-32768, 0), IntOf(-32769, 65535),
     IntOf(-32769, 65534), IntOf(16777216, 0), IntOf(-16777216, 0)}

\* Python values: their type and what they hold.
PyValues ==
    [type : {"bool"}, v : BOOLEAN]
        \cup [type : {"int"}, v : PyInts]
        \cup [type : {"float"}, v : {"0.5", "-1e10"}]
        \cup [type : {"str"}, v : {"", "abc"}]
        \cup [type : {"NoneType", "bytes", "list"}, v : {"other"}]

\* isinstance(value, cls): bool is a subclass of int.
IsInstance(value, cls) ==
    value.type = cls \/ (cls = "int" /\ value.type = "bool")

\* The int a value compares as: True is 1 and False is 0.
AsInt(value) ==
    IF value.type = "bool" THEN IF value.v THEN IntOf(0, 1) ELSE IntOf(0, 0)
    ELSE value.v

\* The Any message after any_message.Pack(wrapper).
Packed(wrapper, v) == Returned([wrapper |-> wrapper, value |-> v])

\* create_protobuf_any_value with the int test put before the bool test.
create_protobuf_any_valueIntFirst(value) ==
    IF IsInstance(value, "int")
    THEN IF IntGt(AsInt(value), Int32Max) \/ IntLt(AsInt(value), Int32Min)
         THEN Packed("Int64Value", value.v)
         ELSE Packed("Int32Value", value.v)
    ELSE IF IsInstance(value, "bool") THEN Packed("BoolValue", value.v)
    ELSE IF IsInstance(value, "float") THEN Packed("FloatValue", value.v)
    ELSE IF IsInstance(value, "str") THEN Packed("StringValue", value.v)
    ELSE Raise("ValueError")

\* utils.py:270-299.
create_protobuf_any_value(value) ==
    IF IsInstance(value, "bool") THEN Packed("BoolValue", value.v)
    ELSE IF IsInstance(value, "int")
    THEN IF IntGt(AsInt(value), Int32Max) \/ IntLt(AsInt(value), Int32Min)
         THEN Packed("Int64Value", value.v)
         ELSE Packed("Int32Value", value.v)
    ELSE IF IsInstance(value, "float") THEN Packed("FloatValue", value.v)
    ELSE IF IsInstance(value, "str") THEN Packed("StringValue", value.v)
    ELSE Raise("ValueError")

ApplyCreateAny ==
    /\ fn = "create_protobuf_any_value"
    /\ out = Pending
    /\ out' = create_protobuf_any_value(arg)
    /\ UNCHANGED <<fn, arg, reader, batches>>
    /\ UNCHANGED captureVars

\* The functions applied on their own, each to one argument.
CallInit ==
    /\ CaptureInit
    /\ out = Pending
    /\ batches = <<>>
    /\ \/ /\ fn = "process_audio"
          /\ arg \in Buffers
          /\ reader = <<>>
       \/ /\ fn = "check_streamable"
          /\ arg \in Mp4Files
          /\ reader = <<>>
       \/ /\ fn = "roi_csv_reader"
          /\ arg \in RoiCalls
          /\ reader = arg.rows
       \/ /\ fn = "create_protobuf_any_value"
          /\ arg \in PyValues
          /\ reader = <<>>

CallNext ==
    \/ ApplyProcessAudio
    \/ ApplyCheckStreamable
    \/ RoiYield
    \/ RoiStop
    \/ ApplyCreateAny

CallSpec == CallInit /\ [][CallNext]_vars

\* ------------------------------------------------------------------ claims

\* The thread a Start call creates, seen across one step.
Launches == \E t \in Threads : pc[t] = "unborn" /\ pc'[t] = "l68"

\* Stop has been called and a capture loop it should end still holds its
\* input stream.
Stopping == ~running /\ \E t \in Threads : Alive(t) /\ InSession(t)

\* C1: at most one capture thread is between opening the input stream
\* (line 71) and closing it (line 82) at any time.
C1_AtMostOneSession == Cardinality({t \in Threads : InSession(t)}) <= 1

\* C2: the first Start() of the process, made before any other call, launches
\* a capture thread.
C2_FirstStartLaunches ==
    [][(lastCall = NoCall /\ start_voice_filtering) => Launches]_vars

\* C3: if Stop() is the last call the foreground makes and no stream read or
\* playback raises, then eventually no capture thread is alive, every stream is
\* closed and the flag says not running, for good.
C3_StopEndsSession ==
    <>[](lastCall.op = "Stop" /\ \A t \in Threads : ~Raised(t))
        => <>[](NoThreadAlive /\ ~running /\ \A t \in Threads : ~InSession(t))

\* C4: a Start() that directly follows a Start() made with no capture thread
\* alive adds nothing: the first launched the one capture thread and the
\* second launches none.
C4_StartTwiceLaunchesOnce ==
    [][(lastCall.op = "Start" /\ lastCall.idleBefore /\ start_voice_filtering)
        => (lastCall.launched /\ ~Launches)]_vars

\* C5: a Start() made while the controller is Stopping launches no capture
\* thread and opens no device.
C5_StartNoopWhileStopping ==
    [][(Stopping /\ start_voice_filtering) => UNCHANGED <<pc, stream>>]_vars

\* C6: when the last capture thread ended because opening the input stream
\* failed, the controller is Idle: the flag is not set and the label shows Idle.
C6_OpenFailureLeavesIdle ==
    (lastEnd = "open_error" /\ NoThreadAlive)
        => (~running /\ status_label = "Idle")

\* C7: when the last capture thread ended because a read or a playback
\* raised, the controller is back to Idle: it is not left Running with no
\* capture loop executing, and the label shows Idle.
C7_LoopFailureReturnsToIdle ==
    (lastEnd = "loop_error" /\ NoThreadAlive)
        => (~running /\ status_label = "Idle")

\* C8: after a capture session ended with a device error and no Stop() was
\* called since, a Start() launches a new capture thread.
C8_StartAfterErrorLaunches ==
    [][(lastEnd \in {"open_error", "loop_error"} /\ NoThreadAlive
        /\ start_voice_filtering) => Launches]_vars

\* C9: a Stop() made while no capture thread is alive, the process-start
\* state included, changes neither the flag nor the label.
C9_StopWhenIdleIsNoop ==
    [][(NoThreadAlive /\ stop_voice_filtering)
        => UNCHANGED <<running, status_label>>]_vars

\* C10: a finished capture thread that opened a stream has closed it and
\* terminated its PyAudio instance.
C10_FinishedThreadReleased ==
    \A t \in Threads :
        (Finished(t) /\ stream[t] # "none") => (stream[t] = "closed" /\ ~p[t])

\* C11: within one capture session the buffers given to play_audio are the
\* frames stream.read returned, in the order read and each once: every buffer
\* played was the oldest frame not yet played, at most one frame is waiting,
\* and it is the frame the filter and playback statements are working on.
C11_FramesPlayedInReadOrder ==
    \A t \in Threads :
        /\ inOrder[t]
        /\ pending[t] = IF pc[t] \in {"l78", "l79"} THEN <<audio_data[t]>>
                        ELSE <<>>

\* C11 witness: a session that has played one frame and is about to play a
\* second, different one.
C11_Witness ==
    /\ pc[1] = "l79" /\ pc[2] = "unborn"
    /\ played = 1
    /\ pending[1] = <<2>>

\* C13: with the identity filter, the buffer a capture thread submits to
\* playback is the frame it read from the stream for that iteration.
C13_PlayedEqualsRead ==
    [][\A t \in Threads :
        (pc[t] = "l79" /\ pc'[t] = "l76") => played' = audio_data[t]]_vars

\* C13 witness: a frame has gone through read, filter and playback.
C13_Witness ==
    /\ pc[1] = "l76"
    /\ audio_data[1] = 2
    /\ filtered_audio[1] = 2
    /\ played = 2

\* The capture thread t executes the body or the test of its loop.
InLoop(t) == pc[t] \in {"l76", "l77", "l78", "l79"}

\* C14: when exactly one capture thread is alive, it is in its loop and the
\* flag is set, the label shows Running; when no capture thread is alive the
\* label shows Idle.
C14_LabelAgreesWithActivity ==
    /\ (\E t \in Threads :
            /\ InLoop(t)
            /\ running
            /\ \A u \in Threads \ {t} : ~Alive(u))
        => status_label = "Running"
    /\ NoThreadAlive => status_label = "Idle"

\* The first half of C14 alone, in states no device call has raised in.
LabelRunningWhileCapturing ==
    (/\ \A t \in Threads : ~Raised(t)
     /\ \E t \in Threads :
            /\ InLoop(t)
            /\ running
            /\ \A u \in Threads \ {t} : ~Alive(u))
        => status_label = "Running"

\* C15: the flag is the only data both contexts touch: a step of a capture
\* thread leaves the label, which the foreground writes, unchanged, and a
\* Start or Stop step leaves unchanged everything a capture thread writes
\* other than the flag.
C15_OnlyFlagIsShared ==
    [][/\ (\E t \in Threads : capture_audio(t)) => UNCHANGED status_label
       /\ (start_voice_filtering \/ stop_voice_filtering)
            => UNCHANGED <<status_label, p, stream, audio_data,
                           filtered_audio, played>>]_vars

\* C12 as stated: process_audio returns a buffer of FrameBytes bytes and
\* rejects a buffer of any other length with FormatError.
C12_RejectsOtherLengths ==
    (fn = "process_audio" /\ out # Pending)
        => IF arg.len = FrameBytes THEN out = Returned(arg)
           ELSE out = Raise("FormatError")

\* C12 as amended: process_audio returns the buffer it is given unchanged,
\* whatever its length, and raises nothing.
C12_ReturnsEveryBufferUnchanged ==
    (fn = "process_audio" /\ out # Pending) => out = Returned(arg)

\* C12 witness: a buffer one byte short of a frame has been returned.
C12_Witness ==
    /\ fn = "process_audio"
    /\ out.kind = "return"
    /\ arg.len = FrameBytes - 1

\* The answer check_streamable gave: the bool, or the first item of the tuple.
SaysStreamable(v) == IF v.tag = "bool" THEN v.b ELSE v.items[1]

\* In the whole file, the first atom is ftyp and the atom that begins where
\* it ends is moov.
MoovFollowsFtyp(file) ==
    /\ Slice(file, 4, 8) = Ftyp
    /\ LET ftyp_size == FromBytesBig(Slice(file, 0, 4)) IN
       Slice(file, ftyp_size + 4, ftyp_size + 8) = Moov

\* C16: a file shorter than 40 bytes raises RuntimeError; for any other file
\* check_streamable answers streamable exactly when the first atom is ftyp and
\* the atom right after it is moov, whatever the size of the ftyp atom.
C16_StreamableIffMoovFollowsFtyp ==
    (fn = "check_streamable" /\ out # Pending)
        => IF Len(arg) < HeaderLen THEN out = Raise("RuntimeError")
           ELSE /\ out.kind = "return"
                /\ SaysStreamable(out.value) = MoovFollowsFtyp(arg)

RECURSIVE Flatten(_)
\* The rows of a sequence of batches, in order.
Flatten(bs) == IF bs = <<>> THEN <<>> ELSE Head(bs) \o Flatten(Tail(bs))

\* The batches yielded so far are the rows read so far, in order, in batches
\* of row_count rows, the last one possibly shorter, none empty.
BatchesWellFormed ==
    /\ Flatten(batches) \o reader = arg.rows
    /\ \A i \in 1..Len(batches) : Len(batches[i]) \in 1..arg.row_count
    /\ \A i \in 1..(Len(batches) - 1) : Len(batches[i]) = arg.row_count

\* C17 as stated: for every row_count >= 0 the generator ends having yielded
\* all the rows of the reader, in well-formed batches.
C17_AllRowsYieldedFromZero ==
    (fn = "roi_csv_reader" /\ arg.row_count >= 0)
        => /\ BatchesWellFormed
           /\ out # Pending => Flatten(batches) = arg.rows

\* C17 as amended: for every row_count >= 1 the generator ends having yielded
\* all the rows of the reader, in well-formed batches; for row_count = 0 it
\* ends without yielding a batch.
C17_AllRowsYieldedFromOne ==
    fn = "roi_csv_reader"
        => IF arg.row_count >= 1
           THEN /\ BatchesWellFormed
                /\ out # Pending => Flatten(batches) = arg.rows
           ELSE batches = <<>> /\ reader = arg.rows

\* C17 witness: three rows read two at a time have been yielded as a batch of
\* two and a batch of one, and the generator has ended.
C17_Witness ==
    /\ fn = "roi_csv_reader"
    /\ out # Pending
    /\ arg.row_count = 2
    /\ Len(batches) = 2
    /\ Len(batches[2]) = 1

\* -2147483648 <= v <= 2147483647.
InInt32Range(v) == ~IntGt(v, Int32Max) /\ ~IntGt(Int32Min, v)

\* The wrapper C18 names for a value, "none" where it names ValueError.
WrapperFor(value) ==
    CASE value.type = "bool" -> "BoolValue"
      [] value.type = "int" ->
            IF InInt32Range(value.v) THEN "Int32Value" ELSE "Int64Value"
      [] value.type = "float" -> "FloatValue"
      [] value.type = "str" -> "StringValue"
      [] OTHER -> "none"

====
